---- MODULE Spec2Model ----
(***************************************************************************)
(* A model of the metrics comparison tool (src/metrics_comparator.py):     *)
(* MetricsComparator.compare_metrics builds the raw list of MetricChange   *)
(* records from two snapshots, MetricsComparator.create_detailed_table     *)
(* filters, sorts and caps the list that is rendered.                      *)
(*                                                                         *)
(* Numbers are integers 0..MaxValue.  A percentage is kept as the exact    *)
(* fraction num/den (den > 0, lowest terms) of (new - old) / old * 100.    *)
(* Strings are compared as Python compares them, through their position in *)
(* Lexicographic, the sorted list of every string the model uses.          *)
(***************************************************************************)
EXTENDS Integers, Sequences, FiniteSets, TLC

\* ---- bounds of the model ----
MaxValue == 1        \* field values are the numbers 0..MaxValue (or a text)
MaxPrecision == 2    \* float_precision is one of 0..MaxPrecision
MaxChanges == 2      \* max_changes is one of 0..MaxChanges

\* ---- the names the snapshots use ----
MetricNames == {"errors", "latency"}
FieldNames == {"count", "p50"}
\* the fields a metric of the documents may carry
FieldsOf == [errors |-> {"count"}, latency |-> {"count", "p50"}]

\* every string that is ever compared, in Python's str order
Lexicographic ==
    <<"count", "decreased", "errors", "increased", "latency", "new", "p50",
      "p99", "removed", "unchanged">>

StrRanks ==
    [s \in {Lexicographic[i] : i \in DOMAIN Lexicographic} |->
        CHOOSE i \in DOMAIN Lexicographic : Lexicographic[i] = s]
StrRank(s) == StrRanks[s]
StrLess(a, b) == StrRank(a) < StrRank(b)

\* ---- values of a JSON document ----
None == [t |-> "none", n |-> 0]
Number(n) == [t |-> "num", n |-> n]
TextValue == [t |-> "str", n |-> 0]

\* isinstance(v, (int, float))
IsNumber(v) == v.t = "num"

\* a JSON value that is an object: its keys are names, while a number, a text
\* or null is a record tagged by t
IsMapping(v) == "t" \notin DOMAIN v

\* dict.get(key, default)
Get(d, key, default) == IF key \in DOMAIN d THEN d[key] ELSE default

EmptyDict == [k \in {} |-> None]

\* class ChangeType(Enum): each member is modelled by its value, the label
Increased == "increased"
Decreased == "decreased"
Unchanged == "unchanged"
New == "new"
Removed == "removed"
ChangeType == {Increased, Decreased, Unchanged, New, Removed}

\* ---- arithmetic helpers ----
Abs(x) == IF x < 0 THEN -x ELSE x
Min(a, b) == IF a < b THEN a ELSE b

RECURSIVE GCD(_, _)
GCD(a, b) == IF b = 0 THEN a ELSE GCD(b, a % b)

\* the fraction num/den in lowest terms with a positive denominator
Fraction(num, den) ==
    LET g == GCD(Abs(num), Abs(den))
        s == IF den < 0 THEN -1 ELSE 1
    IN  [t |-> "num", num |-> s * (num \div g), den |-> Abs(den) \div g]

NoPercentage == [t |-> "none", num |-> 0, den |-> 1]

\* ---- MetricChange ----
\* __post_init__ with the percentage computed for every pair of present values
PercentageChangeNoZeroGuard(old_value, new_value) ==
    IF old_value # None /\ new_value # None
    THEN Fraction((new_value.n - old_value.n) * 100,
                  IF old_value.n = 0 THEN 1 ELSE old_value.n)
    ELSE NoPercentage

\* MetricChange.__post_init__: the percentage_change of a record
PercentageChange(old_value, new_value) ==
    IF old_value # None /\ new_value # None /\ old_value.n # 0
    THEN Fraction((new_value.n - old_value.n) * 100, old_value.n)
    ELSE NoPercentage

\* the dataclass constructor without __post_init__: percentage_change keeps
\* its default None
MetricChangeNoPostInit(metric_name, field_name, old_value, new_value, change_type) ==
    [metric_name |-> metric_name,
     field_name |-> field_name,
     old_value |-> old_value,
     new_value |-> new_value,
     change_type |-> change_type,
     percentage_change |-> NoPercentage]

\* the dataclass constructor, __post_init__ included
MetricChange(metric_name, field_name, old_value, new_value, change_type) ==
    [metric_name |-> metric_name,
     field_name |-> field_name,
     old_value |-> old_value,
     new_value |-> new_value,
     change_type |-> change_type,
     percentage_change |-> PercentageChange(old_value, new_value)]

\* ---- iteration ----
\* the orders in which a set can be iterated
Perms(S) ==
    {p \in [1..Cardinality(S) -> S] : \A x \in S : \E i \in DOMAIN p : p[i] = x}

\* the orders the set all_metrics can be iterated in
MetricOrders == Perms(MetricNames)

\* the keys of a dict in the order .items() yields them: the documents list
\* their keys in ascending order
DictOrder(d) ==
    LET before(k) == Cardinality({j \in DOMAIN d : StrLess(j, k)})
    IN  [i \in 1..Cardinality(DOMAIN d) |->
            CHOOSE k \in DOMAIN d : before(k) = i - 1]

\* the elements of S in the order the iteration order `order` visits them
Iterate(S, order) == SelectSeq(order, LAMBDA x : x \in S)

RECURSIVE ConcatAll(_)
ConcatAll(seqs) ==
    IF seqs = <<>> THEN <<>> ELSE Head(seqs) \o ConcatAll(Tail(seqs))

\* ---- compare_metrics ----
\* the classification with <= for the tolerance test
ClassifyChangeInclusive(old_value, new_value, float_precision) ==
    IF old_value = None THEN New
    ELSE IF new_value = None THEN Removed
    ELSE IF Abs(new_value.n - old_value.n) <= float_precision THEN Unchanged
    ELSE IF new_value.n > old_value.n THEN Increased
    ELSE Decreased

\* the if/elif chain that picks the change_type of a compared field
ClassifyChange(old_value, new_value, float_precision) ==
    IF old_value = None THEN New
    ELSE IF new_value = None THEN Removed
    ELSE IF Abs(new_value.n - old_value.n) < float_precision THEN Unchanged
    ELSE IF new_value.n > old_value.n THEN Increased
    ELSE Decreased

\* the new-metric branch labelling its records Removed
NewMetricChangesMislabelled(metric_name, new_metric) ==
    LET numeric == SelectSeq(DictOrder(new_metric),
                             LAMBDA f : IsNumber(new_metric[f]))
    IN  [i \in 1..Len(numeric) |->
            MetricChange(metric_name, numeric[i], None,
                         new_metric[numeric[i]], Removed)]

\* "New metric": one New record per numeric field of new_metric
NewMetricChanges(metric_name, new_metric) ==
    LET numeric == SelectSeq(DictOrder(new_metric),
                             LAMBDA f : IsNumber(new_metric[f]))
    IN  [i \in 1..Len(numeric) |->
            MetricChange(metric_name, numeric[i], None,
                         new_metric[numeric[i]], New)]

\* "Removed metric": one Removed record per numeric field of old_metric
RemovedMetricChanges(metric_name, old_metric) ==
    LET numeric == SelectSeq(DictOrder(old_metric),
                             LAMBDA f : IsNumber(old_metric[f]))
    IN  [i \in 1..Len(numeric) |->
            MetricChange(metric_name, numeric[i], old_metric[numeric[i]],
                         None, Removed)]

\* "Compare existing metrics": the loop over all_fields, visited in field_order
ExistingMetricChanges(metric_name, old_metric, new_metric, cfg, field_order) ==
    LET all_fields == DOMAIN old_metric \cup DOMAIN new_metric
        old_value(f) == Get(old_metric, f, None)
        new_value(f) == Get(new_metric, f, None)
        compared ==
            SelectSeq(Iterate(all_fields, field_order),
                      LAMBDA f : /\ f \notin cfg.ignore_fields
                                 /\ IsNumber(old_value(f))
                                 /\ IsNumber(new_value(f)))
    IN  [i \in 1..Len(compared) |->
            MetricChange(metric_name, compared[i],
                         old_value(compared[i]), new_value(compared[i]),
                         ClassifyChange(old_value(compared[i]),
                                        new_value(compared[i]),
                                        cfg.float_precision))]

\* the loop body without its "Compare existing metrics" branch: a metric of
\* the new snapshot is taken for a new metric
CompareMetricSharedAsNew(metric_name, old_metrics, new_metrics, cfg, field_order) ==
    LET old_metric == Get(old_metrics, metric_name, EmptyDict)
        new_metric == Get(new_metrics, metric_name, EmptyDict)
    IN  IF metric_name \in cfg.exclude_metrics THEN <<>>
        ELSE IF metric_name \in DOMAIN new_metrics
             THEN NewMetricChanges(metric_name, new_metric)
        ELSE RemovedMetricChanges(metric_name, old_metric)

\* the body of the loop over all_metrics, for one metric_name
CompareMetric(metric_name, old_metrics, new_metrics, cfg, field_order) ==
    LET old_metric == Get(old_metrics, metric_name, EmptyDict)
        new_metric == Get(new_metrics, metric_name, EmptyDict)
    IN  IF metric_name \in cfg.exclude_metrics THEN <<>>
        ELSE IF metric_name \notin DOMAIN old_metrics
             THEN NewMetricChanges(metric_name, new_metric)
        ELSE IF metric_name \notin DOMAIN new_metrics
             THEN RemovedMetricChanges(metric_name, old_metric)
        ELSE ExistingMetricChanges(metric_name, old_metric, new_metric, cfg,
                                   field_order)

\* the loop body raises AttributeError: .items() or .keys() is called on a
\* metric value that is not a dict
CompareMetricRaises(metric_name, old_metrics, new_metrics, cfg) ==
    LET old_metric == Get(old_metrics, metric_name, EmptyDict)
        new_metric == Get(new_metrics, metric_name, EmptyDict)
    IN  IF metric_name \in cfg.exclude_metrics THEN FALSE
        ELSE IF metric_name \notin DOMAIN old_metrics
             THEN ~IsMapping(new_metric)
        ELSE IF metric_name \notin DOMAIN new_metrics
             THEN ~IsMapping(old_metric)
        ELSE ~IsMapping(old_metric) \/ ~IsMapping(new_metric)

\* compare_metrics ends by an AttributeError instead of returning
CompareMetricsRaises(old, new, cfg) ==
    LET old_metrics == Get(old, "aggregate_metrics", EmptyDict)
        new_metrics == Get(new, "aggregate_metrics", EmptyDict)
    IN  \E metric_name \in DOMAIN old_metrics \cup DOMAIN new_metrics :
            CompareMetricRaises(metric_name, old_metrics, new_metrics, cfg)

\* the orders in which the sets all_fields of two documents can be iterated,
\* one order per metric
FieldOrdersOf(old, new) ==
    LET old_metrics == Get(old, "aggregate_metrics", EmptyDict)
        new_metrics == Get(new, "aggregate_metrics", EmptyDict)
        keys(d, m) == IF m \in DOMAIN d /\ IsMapping(d[m]) THEN DOMAIN d[m] ELSE {}
        all_fields(m) == keys(old_metrics, m) \cup keys(new_metrics, m)
        orders == UNION {Perms(all_fields(m)) : m \in MetricNames}
    IN  {o \in [MetricNames -> orders] :
            \A m \in MetricNames : o[m] \in Perms(all_fields(m))}

\* compare_metrics, the set all_metrics iterated in metric_order and the set
\* all_fields of metric m in field_order[m]
CompareMetrics(old, new, cfg, metric_order, field_order) ==
    LET old_metrics == Get(old, "aggregate_metrics", EmptyDict)
        new_metrics == Get(new, "aggregate_metrics", EmptyDict)
        all_metrics == DOMAIN old_metrics \cup DOMAIN new_metrics
        visited == Iterate(all_metrics, metric_order)
    IN  ConcatAll([i \in 1..Len(visited) |->
                      CompareMetric(visited[i], old_metrics, new_metrics, cfg,
                                    field_order[visited[i]])])

\* ---- create_detailed_table ----
\* the filter with its test inverted
FilterChangesInverted(changes, show_unchanged) ==
    IF show_unchanged
    THEN SelectSeq(changes, LAMBDA c : c.change_type # Unchanged)
    ELSE changes

\* "Filter changes if needed"
FilterChanges(changes, show_unchanged) ==
    IF ~show_unchanged
    THEN SelectSeq(changes, LAMBDA c : c.change_type # Unchanged)
    ELSE changes

\* abs(x.percentage_change) if x.percentage_change is not None else 0
AbsPercentage(x) ==
    IF x.percentage_change.t = "none"
    THEN [num |-> 0, den |-> 1]
    ELSE [num |-> Abs(x.percentage_change.num), den |-> x.percentage_change.den]

\* comparison of two non-negative fractions
FracLess(a, b) == a.num * b.den < b.num * a.den
FracEqual(a, b) == a.num * b.den = b.num * a.den

\* key (field_name, metric_name) with the tie on field_name left unbroken
FieldNameKeyLessNoTie(x, y) == StrLess(x.field_name, y.field_name)

\* key=lambda x: (x.field_name, x.metric_name)
FieldNameKeyLess(x, y) ==
    \/ StrLess(x.field_name, y.field_name)
    \/ x.field_name = y.field_name /\ StrLess(x.metric_name, y.metric_name)

\* key=lambda x: (x.change_type.value, x.metric_name)
ChangeTypeKeyLess(x, y) ==
    \/ StrLess(x.change_type, y.change_type)
    \/ x.change_type = y.change_type /\ StrLess(x.metric_name, y.metric_name)

\* key=lambda x: (abs(x.percentage_change) or 0, x.metric_name)
PercentageKeyLess(x, y) ==
    \/ FracLess(AbsPercentage(x), AbsPercentage(y))
    \/ /\ FracEqual(AbsPercentage(x), AbsPercentage(y))
       /\ StrLess(x.metric_name, y.metric_name)

\* key=lambda x: (x.metric_name, x.field_name)
MetricNameKeyLess(x, y) ==
    \/ StrLess(x.metric_name, y.metric_name)
    \/ x.metric_name = y.metric_name /\ StrLess(x.field_name, y.field_name)

\* x is placed before y by the sort that sort_by selects: the key of x is
\* smaller, or larger under reverse=True
SortsBefore(x, y, sort_by) ==
    IF sort_by = "field_name" THEN FieldNameKeyLess(x, y)
    ELSE IF sort_by = "change_type" THEN ChangeTypeKeyLess(x, y)
    ELSE IF sort_by = "percentage" THEN PercentageKeyLess(y, x)
    ELSE MetricNameKeyLess(x, y)

\* list.sort: stable, elements whose keys are equal keep their order
SortChanges(seq, sort_by) ==
    LET n == Len(seq)
        ahead(i) ==
            {j \in 1..n : \/ SortsBefore(seq[j], seq[i], sort_by)
                          \/ /\ ~SortsBefore(seq[i], seq[j], sort_by)
                             /\ j < i}
    IN  [k \in 1..n |-> seq[CHOOSE i \in 1..n : Cardinality(ahead(i)) = k - 1]]

\* filtered_changes[: self.max_changes] when max_changes > 0
LimitChanges(seq, max_changes) ==
    IF max_changes > 0
    THEN SubSeq(seq, 1, Min(max_changes, Len(seq)))
    ELSE seq

\* create_detailed_table capping the list before it is sorted
CreateDetailedTableCapFirst(changes, show_unchanged, cfg) ==
    SortChanges(LimitChanges(FilterChanges(changes, show_unchanged),
                             cfg.max_changes),
                cfg.sort_by)

\* the list of records create_detailed_table puts in the table, row by row
CreateDetailedTable(changes, show_unchanged, cfg) ==
    LimitChanges(SortChanges(FilterChanges(changes, show_unchanged),
                             cfg.sort_by),
                 cfg.max_changes)

\* n/d rounded to the nearest integer, n >= 0 and d > 0
Round(n, d) == (2 * n + d) \div (2 * d)

\* Text(""): no percentage shown
EmptyText == [sign |-> "", hundredths |-> -1]

\* format_percentage_change with the threshold test inclusive
FormatPercentageChangeInclusive(change, min_percentage_change) ==
    LET pct == change.percentage_change
    IN  IF pct.t = "none" THEN EmptyText
        ELSE IF ~FracLess(min_percentage_change, AbsPercentage(change))
             THEN EmptyText
        ELSE [sign |-> IF pct.num > 0 THEN "+"
                       ELSE IF pct.num < 0 THEN "-" ELSE "",
              hundredths |-> Round(Abs(pct.num) * 100, pct.den)]

\* format_percentage_change: the text f" ({sign}{pct:.2f}%)" as the sign it
\* starts with and the digits of pct after rounding to two decimals
FormatPercentageChange(change, min_percentage_change) ==
    LET pct == change.percentage_change
    IN  IF pct.t = "none" THEN EmptyText
        ELSE IF FracLess(AbsPercentage(change), min_percentage_change)
             THEN EmptyText
        ELSE [sign |-> IF pct.num > 0 THEN "+"
                       ELSE IF pct.num < 0 THEN "-" ELSE "",
              hundredths |-> Round(Abs(pct.num) * 100, pct.den)]

\* the Change column of the table: percentage_str of every row
PercentageColumn(rows, cfg) ==
    [i \in DOMAIN rows |->
        FormatPercentageChange(rows[i], cfg.min_percentage_change)]

\* the names of S in ascending order
Sorted(S) == SelectSeq(Lexicographic, LAMBDA s : s \in S)

\* create_metrics_tree: the field nodes of the tree from top to bottom, the
\* metrics in ascending order, the fields of a metric by field_name, Unchanged
\* records skipped
CreateMetricsTree(changes) ==
    LET metrics_dict(m) == SelectSeq(changes, LAMBDA c : c.metric_name = m)
        names == Sorted({changes[i].metric_name : i \in DOMAIN changes})
        nodes(m) == SelectSeq(SortChanges(metrics_dict(m), "field_name"),
                              LAMBDA c : c.change_type # Unchanged)
    IN  ConcatAll([i \in DOMAIN names |-> nodes(names[i])])

\* main: "Determine show_unchanged status (CLI overrides config)"
ShowUnchanged(cfg, cli) == cfg.show_unchanged \/ cli.show_unchanged

\* ---- inputs ----
\* the values a field of a document can hold
FieldValues == {Number(n) : n \in 0..MaxValue} \cup {TextValue}
Numbers == {Number(n) : n \in 0..MaxValue}

Dicts(keys, values) == UNION {[S -> values] : S \in SUBSET keys}

\* the aggregate_metrics mappings whose fields hold `values`
MetricMaps(values) ==
    {d \in Dicts(MetricNames, Dicts(FieldNames, values)) :
        \A m \in DOMAIN d : DOMAIN d[m] \subseteq FieldsOf[m]}

\* documents of metrics with any fields, numeric or not
Documents == {[aggregate_metrics |-> d] : d \in MetricMaps(FieldValues)}

\* documents in which every metric carries all its fields, all numeric
NumericDocuments ==
    {[aggregate_metrics |-> d] : d \in
        {e \in MetricMaps(Numbers) : \A m \in DOMAIN e : DOMAIN e[m] = FieldsOf[m]}}

SortKeys == {"metric_name", "field_name", "change_type", "percentage"}

\* fallback=0.01, in percent
DefaultMinPercentageChange == Fraction(1, 100)

\* _load_config: the options a ConfigParser can yield
ComparisonConfigs ==
    [float_precision : 0..MaxPrecision,
     ignore_fields : {{}, {"count"}},
     exclude_metrics : {{}, {"errors"}},
     show_unchanged : {FALSE},
     max_changes : {0},
     sort_by : {"metric_name"},
     min_percentage_change : {DefaultMinPercentageChange}]

OutputConfigs ==
    [float_precision : {1},
     ignore_fields : {{}},
     exclude_metrics : {{}},
     show_unchanged : BOOLEAN,
     max_changes : 0..MaxChanges,
     sort_by : SortKeys,
     min_percentage_change : {DefaultMinPercentageChange}]

FilterConfigs ==
    [float_precision : {1},
     ignore_fields : {{}},
     exclude_metrics : {{}},
     show_unchanged : BOOLEAN,
     max_changes : 0..MaxChanges,
     sort_by : {"metric_name"},
     min_percentage_change : {DefaultMinPercentageChange}]

\* ---- the program ----
VARIABLES
    pc,                \* where main is: "start", "loaded", "compared", "raised",
                       \* "rendered", "exported", "rerun"
    config,            \* the options _load_config stored
    args,              \* the command line: show_unchanged, format, export
    old_data,          \* the document of file1
    new_data,          \* the document of file2
    changes,           \* the list compare_metrics returned
    filtered_changes,  \* the rows of the table, in order
    percentage_str,    \* the Change column of the table, row by row
    tree,              \* the field nodes of the tree, top to bottom
    exported,          \* the records in the exported HTML page
    rerun              \* the rows of the table of a second run on the same inputs

vars == <<pc, config, args, old_data, new_data, changes, filtered_changes,
          percentage_str, tree, exported, rerun>>

\* the command lines: --show-unchanged, --format, --export
Args(flags, formats, exports) ==
    [show_unchanged : flags, format : formats, export : exports]

\* a comparator constructed, two documents to load, nothing computed yet
InitMain(configs, old_documents, new_documents, command_lines) ==
    /\ pc = "loaded"
    /\ config \in configs
    /\ args \in command_lines
    /\ old_data \in old_documents
    /\ new_data \in new_documents
    /\ changes = <<>>
    /\ filtered_changes = <<>>
    /\ percentage_str = <<>>
    /\ tree = <<>>
    /\ exported = <<>>
    /\ rerun = <<>>

\* the table format without export
InitWith(configs, documents, flags) ==
    InitMain(configs, documents, documents, Args(flags, {"table"}, {FALSE}))

\* any two documents, every comparison option, the default output options
Init == InitWith(ComparisonConfigs, Documents, {FALSE})

\* fully numeric documents, the default comparison options, every output
\* option, no --show-unchanged flag
InitTable == InitWith(OutputConfigs, NumericDocuments, {FALSE})

\* fully numeric documents, the default comparison options and sort key, the
\* show_unchanged option and the --show-unchanged flag each set or not
InitFlags == InitWith(FilterConfigs, NumericDocuments, BOOLEAN)

\* compare_files: changes = self.compare_metrics(old_data, new_data); an
\* AttributeError of the loop ends main
compare_metrics ==
    /\ pc = "loaded"
    /\ IF CompareMetricsRaises(old_data, new_data, config)
       THEN /\ pc' = "raised"
            /\ changes' = changes
       ELSE /\ pc' = "compared"
            /\ \E metric_order \in MetricOrders :
               \E field_order \in FieldOrdersOf(old_data, new_data) :
                  changes' = CompareMetrics(old_data, new_data, config,
                                            metric_order, field_order)
    /\ UNCHANGED <<config, args, old_data, new_data, filtered_changes,
                   percentage_str, tree, exported, rerun>>

\* compare_files: table = self.create_detailed_table(changes, show_unchanged);
\* with show_unchanged the sort is done in place on the caller's list
create_detailed_table ==
    /\ pc = "compared"
    /\ args.format = "table"
    /\ filtered_changes' =
          CreateDetailedTable(changes, ShowUnchanged(config, args), config)
    /\ percentage_str' = PercentageColumn(filtered_changes', config)
    /\ changes' = IF ShowUnchanged(config, args)
                  THEN SortChanges(changes, config.sort_by)
                  ELSE changes
    /\ pc' = "rendered"
    /\ UNCHANGED <<config, args, old_data, new_data, tree, exported, rerun>>

\* compare_files: tree = self.create_metrics_tree(changes)
create_metrics_tree ==
    /\ pc = "compared"
    /\ args.format # "table"
    /\ tree' = CreateMetricsTree(changes)
    /\ pc' = "rendered"
    /\ UNCHANGED <<config, args, old_data, new_data, changes, filtered_changes,
                   percentage_str, exported, rerun>>

\* compare_files: "Export if requested"; _export_to_html builds the tree or
\* the table again from changes
export_to_html ==
    /\ pc = "rendered"
    /\ args.export
    /\ exported' =
          IF args.format = "tree"
          THEN CreateMetricsTree(changes)
          ELSE CreateDetailedTable(changes, ShowUnchanged(config, args), config)
    /\ changes' = IF args.format # "tree" /\ ShowUnchanged(config, args)
                  THEN SortChanges(changes, config.sort_by)
                  ELSE changes
    /\ pc' = "exported"
    /\ UNCHANGED <<config, args, old_data, new_data, filtered_changes,
                   percentage_str, tree, rerun>>

\* main run a second time on the same files, configuration and command line
main_again ==
    /\ pc = "rendered"
    /\ \E metric_order \in MetricOrders :
       \E field_order \in FieldOrdersOf(old_data, new_data) :
          rerun' = CreateDetailedTable(
                      CompareMetrics(old_data, new_data, config,
                                     metric_order, field_order),
                      ShowUnchanged(config, args), config)
    /\ pc' = "rerun"
    /\ UNCHANGED <<config, args, old_data, new_data, changes, filtered_changes,
                   percentage_str, tree, exported>>

Next == compare_metrics \/ create_detailed_table

NextRuns == compare_metrics \/ create_detailed_table \/ main_again

Spec == Init /\ [][Next]_vars

SpecTable == InitTable /\ [][Next]_vars

SpecFlags == InitFlags /\ [][Next]_vars

SpecRuns == InitTable /\ [][NextRuns]_vars

\* documents in which the value of a metric can also be a text or null
ShapeDocuments ==
    {[aggregate_metrics |-> d] : d \in
        {e \in Dicts(MetricNames,
                     Dicts(FieldNames, FieldValues) \cup {TextValue, None}) :
            \A m \in DOMAIN e : IsMapping(e[m]) => DOMAIN e[m] \subseteq FieldsOf[m]}}

\* the default options, the metric errors excluded or not
ShapeConfigs ==
    {c \in ComparisonConfigs : c.float_precision = 1 /\ c.ignore_fields = {}}

\* documents of any shape, compared and shown as a table
InitShapes == InitWith(ShapeConfigs, ShapeDocuments, {FALSE})

SpecShapes == InitShapes /\ [][Next]_vars

\* the [comparison] section a ConfigParser can hold: each option present or
\* not, float_precision down to -1, min_percentage_change down to -1 percent
ConfigParsers ==
    [float_precision : {None} \cup {Number(n) : n \in -1..MaxPrecision},
     min_percentage_change :
        {None, Fraction(-1, 1), Fraction(0, 1), Fraction(1, 100)}]

\* _load_config: every option read with its fallback, none of them checked;
\* the snapshots hold integers, so the fallback 1e-10 of float_precision acts
\* as any tolerance in (0, 1] does and is written 1
LoadConfig(parser) ==
    [float_precision |-> IF parser.float_precision = None
                         THEN 1 ELSE parser.float_precision.n,
     min_percentage_change |-> IF parser.min_percentage_change = None
                               THEN DefaultMinPercentageChange
                               ELSE parser.min_percentage_change,
     ignore_fields |-> {},
     exclude_metrics |-> {},
     show_unchanged |-> FALSE,
     max_changes |-> 0,
     sort_by |-> "metric_name"]

\* no MetricsComparator constructed yet
NotLoaded == [loaded |-> FALSE]

\* main before MetricsComparator(config): two numeric documents on disk
InitConfig ==
    /\ pc = "start"
    /\ config = NotLoaded
    /\ args \in Args({FALSE}, {"table"}, {FALSE})
    /\ old_data \in NumericDocuments
    /\ new_data \in NumericDocuments
    /\ changes = <<>>
    /\ filtered_changes = <<>>
    /\ percentage_str = <<>>
    /\ tree = <<>>
    /\ exported = <<>>
    /\ rerun = <<>>

\* main: comparator = MetricsComparator(config)
load_config ==
    /\ pc = "start"
    /\ \E parser \in ConfigParsers : config' = LoadConfig(parser)
    /\ pc' = "loaded"
    /\ UNCHANGED <<args, old_data, new_data, changes, filtered_changes,
                   percentage_str, tree, exported, rerun>>

NextConfig == load_config \/ compare_metrics \/ create_detailed_table

SpecConfig == InitConfig /\ [][NextConfig]_vars

\* fully numeric documents, every output option, either format, with and
\* without an export
InitTree ==
    InitMain(OutputConfigs, NumericDocuments, NumericDocuments,
             Args({FALSE}, {"table", "tree"}, BOOLEAN))

NextTree ==
    compare_metrics \/ create_detailed_table \/ create_metrics_tree
        \/ export_to_html

SpecTree == InitTree /\ [][NextTree]_vars

\* thresholds of 0, 0.01 (the fallback), 100 and 101 percent
MinPercentages ==
    {Fraction(0, 1), DefaultMinPercentageChange, Fraction(100, 1),
     Fraction(101, 1)}

\* the default comparison options, every display threshold, Unchanged records
\* shown or not, sorted by name or by percentage
DisplayConfigs ==
    [float_precision : {1},
     ignore_fields : {{}},
     exclude_metrics : {{}},
     show_unchanged : BOOLEAN,
     max_changes : {0},
     sort_by : {"metric_name", "percentage"},
     min_percentage_change : MinPercentages]

InitDisplay == InitWith(DisplayConfigs, NumericDocuments, {FALSE})

SpecDisplay == InitDisplay /\ [][Next]_vars

\* the two snapshots of the worked example
ExampleOld ==
    [aggregate_metrics |->
        [latency |-> [p50 |-> Number(10), p99 |-> Number(50)]]]
ExampleNew ==
    [aggregate_metrics |->
        [latency |-> [p50 |-> Number(12), p99 |-> Number(50)],
         errors |-> [count |-> Number(3)]]]

\* the example compared under every output option, with and without the
\* --show-unchanged flag
InitExample ==
    InitMain(OutputConfigs, {ExampleOld}, {ExampleNew},
             Args(BOOLEAN, {"table"}, {FALSE}))

SpecExample == InitExample /\ [][Next]_vars

\* ---- properties ----
\* the two aggregate_metrics mappings compare_metrics was given
OldMetrics == old_data.aggregate_metrics
NewMetrics == new_data.aggregate_metrics
SharedMetrics == DOMAIN OldMetrics \cap DOMAIN NewMetrics

\* compare_metrics has returned
Compared == pc \notin {"start", "loaded", "raised"}

\* the positions of the records of changes for field f of metric m
RecordsOf(m, f) ==
    {i \in DOMAIN changes :
        changes[i].metric_name = m /\ changes[i].field_name = f}

\* exactly one record of changes is for m.f and it satisfies P
OnlyRecord(m, f, P(_)) ==
    /\ Cardinality(RecordsOf(m, f)) = 1
    /\ \A i \in RecordsOf(m, f) : P(changes[i])

\* C1: for a metric in both snapshots (and not excluded) and a field not in
\* ignore_fields that is numeric on one side and missing on the other, exactly
\* one record is emitted: New with old_value absent when the old side misses
\* the field, Removed with new_value absent when the new side misses it.
C1_MissingSideClassified ==
    Compared =>
        \A m \in SharedMetrics \ config.exclude_metrics :
        \A f \in FieldNames \ config.ignore_fields :
            /\ (f \notin DOMAIN OldMetrics[m] /\ f \in DOMAIN NewMetrics[m]
                    /\ IsNumber(NewMetrics[m][f]))
                  => OnlyRecord(m, f, LAMBDA r : r.change_type = New
                                                 /\ r.old_value = None)
            /\ (f \notin DOMAIN NewMetrics[m] /\ f \in DOMAIN OldMetrics[m]
                    /\ IsNumber(OldMetrics[m][f]))
                  => OnlyRecord(m, f, LAMBDA r : r.change_type = Removed
                                                 /\ r.new_value = None)

\* C2: no record of compare_metrics has a field_name in ignore_fields or a
\* metric_name in exclude_metrics, whichever branch emitted it.
C2_ExclusionsExhaustive ==
    \A i \in DOMAIN changes :
        /\ changes[i].field_name \notin config.ignore_fields
        /\ changes[i].metric_name \notin config.exclude_metrics

\* the change_type rules 3-5 of the classifier, written out
RuleType(old_n, new_n, float_precision) ==
    IF Abs(new_n - old_n) < float_precision THEN Unchanged
    ELSE IF new_n > old_n THEN Increased
    ELSE Decreased

\* field f of shared metric m is numeric in both snapshots
NumericInBoth(m, f) ==
    /\ f \in DOMAIN OldMetrics[m] /\ IsNumber(OldMetrics[m][f])
    /\ f \in DOMAIN NewMetrics[m] /\ IsNumber(NewMetrics[m][f])

\* m.f has exactly one record, typed by rules 3-5 from the two values
ClassifiedOnce(m, f) ==
    OnlyRecord(m, f,
        LAMBDA r : /\ r.old_value = OldMetrics[m][f]
                   /\ r.new_value = NewMetrics[m][f]
                   /\ r.change_type = RuleType(OldMetrics[m][f].n,
                                               NewMetrics[m][f].n,
                                               config.float_precision))

\* C3 as stated: every field numeric in both snapshots of a shared metric has
\* exactly one record, Unchanged if abs(new - old) < float_precision, else
\* Increased if new > old, else Decreased.
C3_EveryNumericFieldClassified ==
    Compared =>
        \A m \in SharedMetrics : \A f \in FieldNames :
            NumericInBoth(m, f) => ClassifiedOnce(m, f)

\* C3 amended: the same, for the fields not in ignore_fields of the shared
\* metrics not in exclude_metrics; an excluded field has no record at all.
C3_ComparedFieldClassified ==
    Compared =>
        \A m \in SharedMetrics : \A f \in FieldNames :
            NumericInBoth(m, f) =>
                IF m \in config.exclude_metrics \/ f \in config.ignore_fields
                THEN RecordsOf(m, f) = {}
                ELSE ClassifiedOnce(m, f)

\* two different values within the tolerance were compared and found Unchanged
C3_Witness ==
    /\ Compared
    /\ \E i \in DOMAIN changes :
          /\ changes[i].change_type = Unchanged
          /\ changes[i].old_value # changes[i].new_value
          /\ changes[i].metric_name \in SharedMetrics

\* C4: percentage_change is present exactly when old_value and new_value are
\* both present and old_value is not 0, and then it is
\* (new_value - old_value) / old_value * 100; so it is absent on every New
\* record, every Removed record and every record with old_value = 0.
C4_PercentageChange ==
    \A i \in DOMAIN changes :
        LET r == changes[i]
            both == r.old_value # None /\ r.new_value # None
        IN  /\ (r.percentage_change.t = "num") <=> (both /\ r.old_value.n # 0)
            /\ r.percentage_change.t = "num" =>
                  /\ r.percentage_change.den > 0
                  /\ r.percentage_change.num * r.old_value.n
                        = (r.new_value.n - r.old_value.n) * 100
                             * r.percentage_change.den
            /\ r.change_type \in {New, Removed} =>
                  r.percentage_change.t = "none"

\* a record with a percentage of -100, one with old_value 0 and a New one
C4_Witness ==
    /\ \E i \in DOMAIN changes :
          /\ changes[i].percentage_change.t = "num"
          /\ changes[i].percentage_change.num = -100
    /\ \E i \in DOMAIN changes :
          /\ changes[i].old_value = Number(0)
          /\ changes[i].new_value = Number(1)
    /\ \E i \in DOMAIN changes : changes[i].change_type = New

\* every record has a value and is New / Removed exactly when the old / new
\* value is absent
ValuesMatchType ==
    \A i \in DOMAIN changes :
        /\ changes[i].old_value # None \/ changes[i].new_value # None
        /\ changes[i].old_value = None <=> changes[i].change_type = New
        /\ changes[i].new_value = None <=> changes[i].change_type = Removed

\* every numeric field of each metric of `metrics` that only `present` holds
\* has a record of the given type
OneSidedMetrics(metrics, present, absent, type) ==
    \A m \in metrics \cap (DOMAIN present \ DOMAIN absent) :
    \A f \in DOMAIN present[m] :
        IsNumber(present[m][f]) =>
            OnlyRecord(m, f, LAMBDA r : r.change_type = type)

\* C5 as stated: every record has old_value or new_value; old_value is absent
\* iff the record is New, new_value iff it is Removed; every numeric field of
\* a metric only in the new snapshot yields a New record, of a metric only in
\* the old snapshot a Removed record.
C5_OneSidedRecords ==
    Compared =>
        /\ ValuesMatchType
        /\ OneSidedMetrics(MetricNames, NewMetrics, OldMetrics, New)
        /\ OneSidedMetrics(MetricNames, OldMetrics, NewMetrics, Removed)

\* C5 amended: the same, the last part for the metrics not in exclude_metrics.
C5_OneSidedRecordsNotExcluded ==
    Compared =>
        /\ ValuesMatchType
        /\ OneSidedMetrics(MetricNames \ config.exclude_metrics,
                           NewMetrics, OldMetrics, New)
        /\ OneSidedMetrics(MetricNames \ config.exclude_metrics,
                           OldMetrics, NewMetrics, Removed)

\* a metric only in the new snapshot gave two New records, a metric only in
\* the old one a Removed record
C5_Witness ==
    /\ Compared
    /\ "latency" \in DOMAIN NewMetrics \ DOMAIN OldMetrics
    /\ "errors" \in DOMAIN OldMetrics \ DOMAIN NewMetrics
    /\ Cardinality({i \in DOMAIN changes : changes[i].change_type = New}) = 2
    /\ \E i \in DOMAIN changes : changes[i].change_type = Removed

\* create_detailed_table has returned
Rendered == pc \in {"rendered", "exported", "rerun"}

\* the records of a list, as a set
Records(seq) == {seq[i] : i \in DOMAIN seq}

\* the raw records the filter keeps when Unchanged records are (not) shown
Retained(show) ==
    {r \in Records(changes) : show \/ r.change_type # Unchanged}

\* the rows of the table are the raw records kept under `show`, up to the cap
FilteredAs(show) ==
    /\ Records(filtered_changes) \subseteq Retained(show)
    /\ Len(filtered_changes) =
          IF config.max_changes > 0
          THEN Min(config.max_changes, Cardinality(Retained(show)))
          ELSE Cardinality(Retained(show))

\* C6 as stated: when the configured show_unchanged option is false the final
\* list has no Unchanged record and has every other raw record (before the
\* cap); when it is true every raw record is retained before the cap.
C6_ConfiguredShowUnchanged ==
    Rendered => FilteredAs(config.show_unchanged)

\* C6 amended: the same for the show_unchanged argument create_detailed_table
\* is given, which is the configured option or else the --show-unchanged flag.
C6_EffectiveShowUnchanged ==
    Rendered => FilteredAs(config.show_unchanged \/ args.show_unchanged)

\* Unchanged records were dropped from a table whose other records were kept
C6_Witness ==
    /\ Rendered
    /\ ~config.show_unchanged /\ ~args.show_unchanged
    /\ \E r \in Records(changes) : r.change_type = Unchanged
    /\ filtered_changes # <<>>
    /\ Len(filtered_changes) < Len(changes)

\* the whole sorted, filtered sequence, before the cap
SortedFiltered ==
    SortChanges(FilterChanges(changes,
                              config.show_unchanged \/ args.show_unchanged),
                config.sort_by)

\* C7: with max_changes = N > 0 the final list is the first N elements of the
\* sorted, filtered sequence, of length min(N, records after filtering); with
\* max_changes = 0 it is the whole sequence.  The cap comes after the filter
\* and after the sort.
C7_CapAfterSort ==
    Rendered =>
        /\ Len(filtered_changes) =
              IF config.max_changes > 0
              THEN Min(config.max_changes, Len(SortedFiltered))
              ELSE Len(SortedFiltered)
        /\ \A i \in DOMAIN filtered_changes :
              filtered_changes[i] = SortedFiltered[i]

\* a cap of 1 cut a list of three records that were not found in sorted order
C7_Witness ==
    /\ Rendered
    /\ config.max_changes = 1
    /\ ~config.show_unchanged /\ ~args.show_unchanged
    /\ Len(SortedFiltered) = 3
    /\ Len(filtered_changes) = 1
    /\ changes[1] # SortedFiltered[1]

\* a <= b for two non-negative fractions
FracLeq(a, b) == a.num * b.den <= b.num * a.den

\* C8: with sort_by = percentage the final list is in descending order of
\* abs(percentage_change), an absent percentage counting as 0, and records
\* with equal abs(percentage_change) are in ascending metric_name order.
C8_PercentageOrder ==
    (Rendered /\ config.sort_by = "percentage") =>
        \A i, j \in DOMAIN filtered_changes :
            i < j =>
                LET x == filtered_changes[i]
                    y == filtered_changes[j]
                IN  /\ FracLeq(AbsPercentage(y), AbsPercentage(x))
                    /\ FracEqual(AbsPercentage(x), AbsPercentage(y))
                          => ~StrLess(y.metric_name, x.metric_name)

\* the pair (a1, a2) is not after the pair (b1, b2)
PairLeq(a1, a2, b1, b2) ==
    \/ StrLess(a1, b1)
    \/ a1 = b1 /\ ~StrLess(b2, a2)

\* C9: the final list is in ascending order of (metric_name, field_name) with
\* sort_by = metric_name, of (field_name, metric_name) with sort_by =
\* field_name, and of (change type label, metric_name) with sort_by =
\* change_type.
C9_NameOrders ==
    Rendered =>
        \A i, j \in DOMAIN filtered_changes :
            i < j =>
                LET x == filtered_changes[i]
                    y == filtered_changes[j]
                IN  /\ config.sort_by = "metric_name" =>
                          PairLeq(x.metric_name, x.field_name,
                                  y.metric_name, y.field_name)
                    /\ config.sort_by = "field_name" =>
                          PairLeq(x.field_name, x.metric_name,
                                  y.field_name, y.metric_name)
                    /\ config.sort_by = "change_type" =>
                          PairLeq(x.change_type, x.metric_name,
                                  y.change_type, y.metric_name)

\* sorted by field_name, the count of errors came between the two fields of
\* latency, which compare_metrics had found first
C9_Witness ==
    /\ Rendered
    /\ config.sort_by = "field_name"
    /\ Len(filtered_changes) = 3
    /\ changes[1].metric_name = "latency"
    /\ filtered_changes[1].metric_name = "errors"
    /\ filtered_changes[3].field_name = "p50"

\* C10: a second run on the same snapshots and configuration reports the same
\* records in the same order, whatever order the sets were iterated in.
C10_SameReport ==
    pc = "rerun" => rerun = filtered_changes

\* the metrics of both snapshots whose values are mappings on both sides
WellFormedShared ==
    {m \in SharedMetrics : IsMapping(OldMetrics[m]) /\ IsMapping(NewMetrics[m])}

\* metric m is a mapping that holds a number in field f in document d
HoldsNumber(d, m, f) ==
    /\ m \in DOMAIN d.aggregate_metrics
    /\ IsMapping(d.aggregate_metrics[m])
    /\ f \in DOMAIN d.aggregate_metrics[m]
    /\ IsNumber(d.aggregate_metrics[m][f])

\* C11: when a metric's value is not a mapping or a field's value is not a
\* number, compare_metrics completes without raising; the offending metric or
\* field contributes no record, and every well-formed field (numeric in both
\* snapshots of a compared metric) still has its one record.
C11_MalformedSkipped ==
    /\ pc # "raised"
    /\ Compared =>
          /\ \A m \in WellFormedShared \ config.exclude_metrics :
             \A f \in FieldNames \ config.ignore_fields :
                NumericInBoth(m, f) => ClassifiedOnce(m, f)
          /\ \A i \in DOMAIN changes :
                \/ HoldsNumber(old_data, changes[i].metric_name,
                               changes[i].field_name)
                \/ HoldsNumber(new_data, changes[i].metric_name,
                               changes[i].field_name)

\* C12: a configuration with a negative float_precision or a negative
\* min_percentage_change fails at construction: no MetricsComparator holds a
\* negative value for either option, and compare_metrics never runs with a
\* negative tolerance.
C12_NegativeOptionsRejected ==
    pc # "start" =>
        /\ config.float_precision >= 0
        /\ config.min_percentage_change.num >= 0

\* the comparison options are the defaults
DefaultComparison ==
    /\ config.float_precision = 1
    /\ config.ignore_fields = {}
    /\ config.exclude_metrics = {}

\* the numeric fields of document d, as <<metric, field>> pairs
NumericFields(d) ==
    {mf \in MetricNames \X FieldNames : HoldsNumber(d, mf[1], mf[2])}

\* C13: comparing a snapshot against itself with the default configuration
\* yields a raw list of Unchanged records only, exactly one per numeric field
\* of every metric, and with show_unchanged false the final list is empty.
C13_SelfComparison ==
    (old_data = new_data /\ DefaultComparison) =>
        /\ Compared =>
              /\ \A i \in DOMAIN changes : changes[i].change_type = Unchanged
              /\ \A mf \in MetricNames \X FieldNames :
                    Cardinality(RecordsOf(mf[1], mf[2])) =
                        IF mf \in NumericFields(old_data) THEN 1 ELSE 0
        /\ (Rendered /\ ~ShowUnchanged(config, args)) => filtered_changes = <<>>

\* a snapshot with a non-numeric field and two numeric ones compared against
\* itself: two Unchanged records in the raw list, none in the table
C13_Witness ==
    /\ pc = "rendered"
    /\ old_data = new_data
    /\ DefaultComparison
    /\ ~ShowUnchanged(config, args)
    /\ Cardinality(NumericFields(old_data)) = 2
    /\ \E m \in DOMAIN OldMetrics : \E f \in DOMAIN OldMetrics[m] :
          ~IsNumber(OldMetrics[m][f])
    /\ Len(changes) = 2
    /\ filtered_changes = <<>>

\* the final list of the ordering-and-filtering step
FinalList == LimitChanges(SortedFiltered, config.max_changes)

\* what the console shows: the field nodes of the tree or the rows of the table
Shown == IF args.format = "tree" THEN tree ELSE filtered_changes

\* C14: whatever the output format (table or tree, console or HTML export),
\* the records rendered are exactly the final list: filtered by show_unchanged,
\* ordered by sort_by and capped by max_changes before any presentation.
C14_EveryFormatRendersFinalList ==
    /\ Rendered =>
          /\ Records(Shown) = Records(FinalList)
          /\ Len(Shown) = Len(FinalList)
    /\ pc = "exported" =>
          /\ Records(exported) = Records(FinalList)
          /\ Len(exported) = Len(FinalList)

\* the configuration with the default display threshold in place of its own
DefaultThreshold ==
    [config EXCEPT !.min_percentage_change = DefaultMinPercentageChange]

\* the percentage of record r is absent or below the display threshold
BelowThreshold(r) ==
    \/ r.percentage_change.t = "none"
    \/ Abs(r.percentage_change.num) * config.min_percentage_change.den
          < config.min_percentage_change.num * r.percentage_change.den

\* text is the signed value of the percentage of r: "+" for a rise, "-" for a
\* fall, and the magnitude to the nearest hundredth
SignedValue(r, text) ==
    LET pct == r.percentage_change
    IN  /\ text.sign = "+" <=> pct.num > 0
        /\ text.sign = "-" <=> pct.num < 0
        /\ text.hundredths >= 0
        /\ 2 * Abs(100 * Abs(pct.num) - text.hundredths * pct.den) <= pct.den

\* C15: min_percentage_change only affects display. The raw list and the rows
\* of the table are those the default threshold gives, every record keeps its
\* true percentage_change, sort_by = percentage orders the rows by descending
\* true magnitude, and format_percentage_change is empty exactly when the
\* percentage is absent or abs(percentage) < min_percentage_change, and is the
\* signed value otherwise.
C15_ThresholdOnlyAffectsDisplay ==
    /\ Compared =>
          /\ \E metric_order \in MetricOrders :
             \E field_order \in FieldOrdersOf(old_data, new_data) :
                Records(changes) =
                    Records(CompareMetrics(old_data, new_data, DefaultThreshold,
                                           metric_order, field_order))
          /\ \A i \in DOMAIN changes :
                changes[i].percentage_change =
                    PercentageChange(changes[i].old_value, changes[i].new_value)
    /\ Rendered =>
          /\ filtered_changes =
                CreateDetailedTable(changes, ShowUnchanged(config, args),
                                    DefaultThreshold)
          /\ config.sort_by = "percentage" =>
                \A i, j \in DOMAIN filtered_changes :
                    i < j => ~FracLess(AbsPercentage(filtered_changes[i]),
                                       AbsPercentage(filtered_changes[j]))
          /\ DOMAIN percentage_str = DOMAIN filtered_changes
          /\ \A i \in DOMAIN filtered_changes :
                IF BelowThreshold(filtered_changes[i])
                THEN percentage_str[i] = EmptyText
                ELSE /\ percentage_str[i] # EmptyText
                     /\ SignedValue(filtered_changes[i], percentage_str[i])

\* a table sorted by percentage whose first row has its -100 percent
\* suppressed by the threshold and still sorts ahead of an unchanged value
C15_Witness ==
    /\ pc = "rendered"
    /\ config.sort_by = "percentage"
    /\ Len(filtered_changes) >= 2
    /\ filtered_changes[1].percentage_change = Fraction(-100, 1)
    /\ percentage_str[1] = EmptyText
    /\ \E i \in DOMAIN filtered_changes :
          /\ filtered_changes[i].percentage_change = Fraction(0, 1)
          /\ filtered_changes[i].change_type = Unchanged

\* the output options are the defaults and --show-unchanged is not given
DefaultOutput ==
    /\ ~ShowUnchanged(config, args)
    /\ config.max_changes = 0
    /\ config.sort_by = "metric_name"

\* the two records of the example's final list
ExampleIncreased ==
    [metric_name |-> "latency", field_name |-> "p50",
     old_value |-> Number(10), new_value |-> Number(12),
     change_type |-> Increased, percentage_change |-> Fraction(20, 1)]
ExampleNewField ==
    [metric_name |-> "errors", field_name |-> "count",
     old_value |-> None, new_value |-> Number(3),
     change_type |-> New, percentage_change |-> NoPercentage]

\* C16: for the example snapshots under the default configuration with
\* show_unchanged false, the final list holds exactly two records: latency.p50
\* Increased from 10 to 12 with percentage 20, displayed as +20.00%, and
\* errors.count New with old absent, new 3 and no percentage; latency.p99 does
\* not appear.
C16_Example ==
    (Rendered /\ DefaultComparison /\ DefaultOutput
        /\ old_data = ExampleOld /\ new_data = ExampleNew) =>
        /\ Len(filtered_changes) = 2
        /\ Records(filtered_changes) = {ExampleIncreased, ExampleNewField}
        /\ \A i \in DOMAIN filtered_changes :
              /\ filtered_changes[i] = ExampleIncreased
                    => percentage_str[i] = [sign |-> "+", hundredths |-> 2000]
              /\ filtered_changes[i] = ExampleNewField
                    => percentage_str[i] = EmptyText
              /\ filtered_changes[i].field_name # "p99"

\* the example rendered with the defaults: three raw records, latency.p99
\* Unchanged among them, and a table of two rows
C16_Witness ==
    /\ pc = "rendered"
    /\ DefaultComparison /\ DefaultOutput
    /\ old_data = ExampleOld /\ new_data = ExampleNew
    /\ Len(changes) = 3
    /\ \E i \in DOMAIN changes :
          changes[i].field_name = "p99" /\ changes[i].change_type = Unchanged
    /\ Len(filtered_changes) = 2
    /\ Len(percentage_str) = 2

\* C17: for every float_precision (0 included), a Decreased record has both
\* values present and new_value < old_value strictly, an Increased record has
\* new_value > old_value; two equal values are never reported as Increased or
\* Decreased.
C17_StrictDirection ==
    \A i \in DOMAIN changes :
        /\ changes[i].change_type = Decreased =>
              /\ IsNumber(changes[i].old_value)
              /\ IsNumber(changes[i].new_value)
              /\ changes[i].new_value.n < changes[i].old_value.n
        /\ changes[i].change_type = Increased =>
              /\ IsNumber(changes[i].old_value)
              /\ IsNumber(changes[i].new_value)
              /\ changes[i].new_value.n > changes[i].old_value.n

====
